---- MODULE Spec2Model ----
(***************************************************************************)
(* Model of the site-mirroring engine of SoupScrape (src/scrape.py), of   *)
(* its control panel (src/main.py) and of its image finder                 *)
(* (src/imagesonly.py).                                                    *)
(*                                                                         *)
(* A URL is the record that urlparse() yields: scheme, host (netloc), the  *)
(* path split into directory segments, the final component split by        *)
(* os.path.splitext into file and ext, the query and the fragment.  A      *)
(* path ending in "/" has file = "" and ext = "".  A link is an attribute  *)
(* value as it stands in a document: absolute, protocol-relative,          *)
(* root-relative or relative to the base document.                         *)
(***************************************************************************)
EXTENDS Integers, Sequences, FiniteSets, TLC

\* ------------------------------------------------------------------------
\* Bounds of the model
\* ------------------------------------------------------------------------
MaxPagesBound == 2
MaxWorkersBound == 2
\* the calls of the pure functions one behaviour of CallSpec makes
MaxCalls == 2
\* the run_script requests one behaviour of PanelSpec makes
MaxRuns == 2

\* ------------------------------------------------------------------------
\* Generic helpers
\* ------------------------------------------------------------------------
NoneV == [none |-> TRUE]

Range(s) == {s[i] : i \in 1..Len(s)}

Min(a, b) == IF a < b THEN a ELSE b

\* str.lower() on the extensions the model uses
Lower(s) == CASE s = ".CSS" -> ".css" [] s = ".JPG" -> ".jpg" [] OTHER -> s

\* ------------------------------------------------------------------------
\* Program constants
\* ------------------------------------------------------------------------
RESOURCE_TAGS ==
  << <<"img", "src">>, <<"img", "srcset">>, <<"script", "src">>,
     <<"link", "href">>, <<"source", "src">>, <<"source", "srcset">>,
     <<"video", "src">>, <<"audio", "src">>, <<"iframe", "src">> >>

BINARY_EXTS ==
  { ".png", ".jpg", ".jpeg", ".gif", ".webp", ".svg", ".ico", ".bmp", ".tiff",
    ".tif", ".woff", ".woff2", ".ttf", ".eot", ".otf", ".mp4", ".webm", ".ogg",
    ".mp3", ".wav", ".avi", ".mov", ".pdf", ".zip", ".rar", ".7z", ".tar",
    ".gz" }

IMAGE_EXTS ==
  { ".png", ".jpg", ".jpeg", ".gif", ".webp", ".svg", ".ico", ".bmp", ".tiff",
    ".tif", ".avif", ".jfif" }

\* hashlib.sha1(query.encode()).hexdigest()[:8] for the queries of the model
QHash(q) == CASE q = "v=1" -> "1d365e2d"
              [] q = "v=2" -> "f67bbdbf"
              [] q = "f=a.css" -> "f3d5ca0b"
              [] q = "v=7141" -> "712f4a68"
              [] q = "v=137874" -> "712f4a68"
              [] OTHER -> "da39a3ee"

\* ------------------------------------------------------------------------
\* URL Normalizer
\* ------------------------------------------------------------------------
\* urldefrag(url)[0]
urldefrag(u) == [u EXCEPT !.frag = ""]

\* the directory part of a base URL's path (urljoin drops the last component)
BaseDirs(u) == u.dirs

\* RFC 3986 dot-segment removal as urljoin applies it to a path without a
\* netloc: ".." pops a segment when there is one, "." is dropped
RECURSIVE RemoveDots(_, _)
RemoveDots(segs, acc) ==
  IF segs = <<>> THEN acc
  ELSE IF Head(segs) = ".."
       THEN RemoveDots(Tail(segs),
                       IF acc = <<>> THEN acc ELSE SubSeq(acc, 1, Len(acc) - 1))
  ELSE IF Head(segs) = "." THEN RemoveDots(Tail(segs), acc)
  ELSE RemoveDots(Tail(segs), Append(acc, Head(segs)))

\* urljoin(base_url, link)
urljoin(base, l) ==
  IF l.scheme # "" /\ l.scheme # base.scheme
  THEN [scheme |-> l.scheme, host |-> l.host, dirs |-> l.dirs, file |-> l.file,
        ext |-> l.ext, query |-> l.query, frag |-> l.frag]
  ELSE IF l.host # ""
  THEN [scheme |-> base.scheme, host |-> l.host, dirs |-> l.dirs,
        file |-> l.file, ext |-> l.ext, query |-> l.query, frag |-> l.frag]
  ELSE [scheme |-> base.scheme, host |-> base.host,
        dirs |-> RemoveDots(IF l.rel THEN BaseDirs(base) \o l.dirs ELSE l.dirs,
                            <<>>),
        file |-> l.file, ext |-> l.ext, query |-> l.query, frag |-> l.frag]

IgnoredSchemes == {"javascript", "mailto", "tel", "data"}

\* normalize_url(base_url, link): NoneV for the ignored schemes
normalize_url(base, l) ==
  IF l.scheme \in IgnoredSchemes THEN NoneV
  ELSE urldefrag(urljoin(base, l))

is_same_origin(base_netloc, u) == u.host = base_netloc

looks_like_resource(u) ==
  \/ Lower(u.ext) \in BINARY_EXTS
  \/ Lower(u.ext) \in {".css", ".js"}

is_image_url(u) == Lower(u.ext) \in IMAGE_EXTS

\* downloaded_url.lower().endswith(".css") on the whole URL string: the URL
\* string ends with its query when it has one
UrlEndsWith(u, e) ==
  IF u.query = "" THEN Lower(u.ext) = e
  ELSE (e = ".css" /\ u.query = "f=a.css")

\* ------------------------------------------------------------------------
\* Path Mapper
\* ------------------------------------------------------------------------
\* os.path.normpath on a relative path: "." dropped, ".." cancels a preceding
\* segment and is kept when there is none
RECURSIVE NormPath(_, _)
NormPath(segs, acc) ==
  IF segs = <<>> THEN acc
  ELSE IF Head(segs) = "."  THEN NormPath(Tail(segs), acc)
  ELSE IF Head(segs) = ".." /\ acc # <<>> /\ acc[Len(acc)] # ".."
       THEN NormPath(Tail(segs), SubSeq(acc, 1, Len(acc) - 1))
  ELSE NormPath(Tail(segs), Append(acc, Head(segs)))

\* a url_to_path without the assertion on the netloc
PathError_Never(u) == FALSE

\* assert parsed.netloc: url_to_path raises AssertionError for a URL without
\* a netloc and returns a path for every other URL
PathError(u) == u.host = ""

\* a path mapping that leaves the query out of the file name
url_to_path_NoQuery(base_dir, u) ==
  LET p1 == IF u.file = "" /\ u.ext = ""
            THEN [dirs |-> u.dirs, file |-> "index", ext |-> ".html"]
            ELSE IF u.ext = ""
            THEN [dirs |-> Append(u.dirs, u.file), file |-> "index",
                  ext |-> ".html"]
            ELSE [dirs |-> u.dirs, file |-> u.file, ext |-> u.ext]
  IN  [dirs |-> NormPath(<<base_dir, u.host>> \o p1.dirs, <<>>),
       file |-> p1.file, ext |-> p1.ext]

\* url_to_path(base_dir, base_netloc, url) for a URL that passes the assertion
url_to_path(base_dir, u) ==
  LET p1 == IF u.file = "" /\ u.ext = ""
            THEN [dirs |-> u.dirs, file |-> "index", ext |-> ".html"]
            ELSE IF u.ext = ""
            THEN [dirs |-> Append(u.dirs, u.file), file |-> "index",
                  ext |-> ".html"]
            ELSE [dirs |-> u.dirs, file |-> u.file, ext |-> u.ext]
      p2 == IF u.query # ""
            THEN [p1 EXCEPT !.file = p1.file \o "__q" \o QHash(u.query)]
            ELSE p1
  IN  [dirs |-> NormPath(<<base_dir, u.host>> \o p2.dirs, <<>>),
       file |-> p2.file, ext |-> p2.ext]

\* os.path.dirname(local_path)
DirName(p) == p.dirs

RECURSIVE CommonLen(_, _)
CommonLen(a, b) ==
  IF a = <<>> \/ b = <<>> \/ Head(a) # Head(b) THEN 0
  ELSE 1 + CommonLen(Tail(a), Tail(b))

\* os.path.relpath(target, start) with "/" separators, as a relative link
RelPath(target, start) ==
  LET c == CommonLen(target.dirs, start)
  IN  [scheme |-> "", host |-> "", rel |-> TRUE,
       dirs |-> [i \in 1..(Len(start) - c) |-> ".."]
                  \o SubSeq(target.dirs, c + 1, Len(target.dirs)),
       file |-> target.file, ext |-> target.ext, query |-> "", frag |-> ""]

\* ------------------------------------------------------------------------
\* The site: the links, documents and answers a server can give
\* ------------------------------------------------------------------------
HOST == "ex.test"
OTHER_HOST == "evil.com"
OUTDIR == "out"

Lnk(scheme, host, rel, dirs, file, ext, query, frag) ==
  [scheme |-> scheme, host |-> host, rel |-> rel, dirs |-> dirs, file |-> file,
   ext |-> ext, query |-> query, frag |-> frag]

L_root == Lnk("", "", FALSE, <<>>, "", "", "", "")
L_about == Lnk("", "", FALSE, <<>>, "about", "", "", "")
L_about_frag == Lnk("", "", FALSE, <<>>, "about", "", "", "top")
L_php == Lnk("", "", FALSE, <<>>, "page", ".php", "", "")
L_img == Lnk("", "", FALSE, <<>>, "img1", ".jpg", "", "")
L_css == Lnk("", "", FALSE, <<"css">>, "style", ".css", "", "")
L_pdf == Lnk("", "", FALSE, <<>>, "doc", ".pdf", "", "")
L_bg == Lnk("", "", TRUE, <<>>, "bg", ".png", "", "")
L_up_img == Lnk("", "", TRUE, <<"..">>, "img1", ".jpg", "", "")
L_evil == Lnk("https", OTHER_HOST, FALSE, <<>>, "p", "", "", "")
L_js == Lnk("javascript", "", FALSE, <<>>, "void", "", "", "")
L_css_root == Lnk("", "", FALSE, <<>>, "style", ".css", "", "")
L_bg_root == Lnk("", "", FALSE, <<>>, "bg", ".png", "", "")
L_index == Lnk("", "", FALSE, <<>>, "index", ".html", "", "")
L_file == Lnk("file", "", FALSE, <<>>, "x", ".png", "", "")
L_css_q == Lnk("", "", FALSE, <<>>, "style", ".css", "v=1", "")
L_JS == Lnk("JavaScript", "", FALSE, <<>>, "void", "", "", "")

Cand(l, d) == [link |-> l, desc |-> d]

Node(tag, attr, l) == [tag |-> tag, attr |-> attr, cands |-> <<Cand(l, "")>>]

N_img == Node("img", "src", L_img)
N_img_about == Node("img", "src", L_about)
N_a_about == Node("a", "href", L_about_frag)
N_a_php == Node("a", "href", L_php)
N_a_pdf == Node("a", "href", L_pdf)
N_a_root == Node("a", "href", L_root)
N_a_js == Node("a", "href", L_js)
N_link == Node("link", "href", L_css)
N_iframe_evil == Node("iframe", "src", L_evil)
N_srcset == [tag |-> "img", attr |-> "srcset",
             cands |-> <<Cand(L_img, "1x"), Cand(L_about, "2x")>>]
N_style == Node("style", "text", L_img)
N_css_bg == Node("css", "url", L_bg)
N_css_img == Node("css", "url", L_up_img)
N_link_root == Node("link", "href", L_css_root)
N_css_bg_root == Node("css", "url", L_bg_root)
N_a_index == Node("a", "href", L_index)
N_img_file == Node("img", "src", L_file)
N_link_q == Node("link", "href", L_css_q)

Html(nodes) == [kind |-> "html", nodes |-> nodes]
Css(nodes) == [kind |-> "css", nodes |-> nodes]
Bin == [kind |-> "bin", nodes |-> <<>>]
EmptyFile == [kind |-> "empty", nodes |-> <<>>]

\* the documents a server may answer a page request with
Bodies ==
  { Html(<<N_img, N_link, N_a_about>>),
    Html(<<N_a_pdf, N_a_pdf>>),
    Html(<<N_img_about, N_a_about, N_a_php>>),
    Html(<<N_iframe_evil, N_srcset, N_a_root>>),
    Html(<<N_style, N_img, N_a_js>>),
    Html(<<N_a_about, N_a_php>>) }

\* the style sheets a server may answer with
Sheets == { Css(<<N_css_bg>>), Css(<<N_css_img, N_css_bg>>) }

\* The sites a run is made against.  "open" answers any of Bodies and Sheets
\* to any request.  "single" is one page referencing /img1.jpg and
\* /style.css, the sheet referencing /bg.png.  "home" is a start page with a link to
\* /index.html.  "moved" answers /page.php with a redirect.  "embed" is a page
\* with an image reference that has no host (file:///x.png).  "versioned" is
\* one page referencing /img1.jpg, /style.css?v=1 and /doc.pdf, the sheet
\* referencing /bg.png.
Sites == {"open", "single", "home", "moved", "embed", "versioned"}

\* the documents a site may answer a page request with
PageBodies(site) ==
  CASE site = "open" -> Bodies
    [] site = "single" -> {Html(<<N_img, N_link_root>>)}
    [] site = "home" -> {Html(<<N_a_index>>), Html(<<N_img>>)}
    [] site = "moved" -> {Html(<<N_img>>)}
    [] site = "embed" -> {Html(<<N_img_file, N_img>>)}
    [] site = "versioned" -> {Html(<<N_img, N_link_q, N_a_pdf>>)}

\* the style sheets a site may answer with
SiteSheets(site) ==
  CASE site = "open" -> Sheets
    [] site \in {"single", "versioned"} -> {Css(<<N_css_bg_root>>)}
    [] OTHER -> {Css(<<N_css_bg>>)}

\* what a site answers for a URL fetched as a resource: a style sheet for a
\* .css path, a document for a path without a resource extension, bytes
\* otherwise
ResourceBodies(site, u) ==
  IF Lower(u.ext) = ".css" THEN SiteSheets(site)
  ELSE IF looks_like_resource(u) THEN {Bin}
  ELSE PageBodies(site)

Url(host, dirs, file, ext) ==
  [scheme |-> "https", host |-> host, dirs |-> dirs, file |-> file, ext |-> ext,
   query |-> "", frag |-> ""]

\* the Location a site may answer a GET of u with (status 301, 302, 303, 307
\* or 308): "moved" sends /page.php to /about or to another host
Redirects(site, u) ==
  IF site = "moved" /\ u = Url(HOST, <<>>, "page", ".php")
  THEN {Url(HOST, <<>>, "about", ""), Url(OTHER_HOST, <<>>, "p", "")}
  ELSE {}

\* the start URLs: https://ex.test/ and https://ex.test/page.php#top
StartUrls ==
  { [scheme |-> "https", host |-> HOST, dirs |-> <<>>, file |-> "", ext |-> "",
     query |-> "", frag |-> ""],
    [scheme |-> "https", host |-> HOST, dirs |-> <<>>, file |-> "page",
     ext |-> ".php", query |-> "", frag |-> "top"] }

\* robots.txt as the parser holds it: the two rules "Disallow: /about" and
\* "Disallow: /css/", or never read (rp.read() failed or was not called;
\* can_fetch is then False for every URL)
RobotsPolicies == {"partial", "unread"}

\* rp.can_fetch(USER_AGENT, url)
RobotsCanFetch(policy, u) ==
  IF policy = "unread" THEN FALSE
  ELSE ~ \/ (u.dirs = <<>> /\ u.file = "about")
         \/ (u.dirs # <<>> /\ u.dirs[1] = "css")
         \/ (u.dirs # <<>> /\ u.dirs[1] = "about")

Configs ==
  { c \in [max_pages : 0..MaxPagesBound, max_workers : 1..MaxWorkersBound,
           same_domain_only : BOOLEAN, obey_robots : BOOLEAN,
           images_dir : BOOLEAN, start_url : StartUrls,
           robots : RobotsPolicies, site : Sites] :
      ~c.obey_robots => c.robots = "unread" }

\* ------------------------------------------------------------------------
\* State of mirror()
\* ------------------------------------------------------------------------
VARIABLES
  cfg,                \* the arguments of mirror() and the robots.txt read
  pc,                 \* "crawl", "batch", "rewrite", "done" or "aborted"
  to_visit_pages, to_visit_resources, visited_pages,
  downloaded,         \* dict original_url -> local_path or NoneV
  dl_order,           \* the insertion order of the keys of downloaded
  page_count, resource_count,
  resource_batch,     \* the tasks submitted to the executor
  files,              \* the output tree: local path -> content
  mapping,            \* the rewrite map of the second pass
  rw_todo,            \* list(downloaded.items()) still to be rewritten
  fetch_log,          \* history: every request of fetch_url for mirror() or
                      \* a worker; ok is FALSE for a page fetch that returned
                      \* no response and for a worker that ended without a file
  enq_log,            \* history: every append to one of the two queues
  page_skips,         \* history: pages marked visited without a fetch
  rw_log,             \* history: every file the second pass rewrote, with
                      \* each reference as read and as written
  shutdown_requested, \* the module-level flag signal_handler sets
  call_log,           \* history: the calls of the pure functions made
                      \* outside a run of mirror(), with what they returned
  \* the control panel (main.py)
  scraping_active,    \* the module-level flag _scraping_active
  known_files,        \* the module-level set _known_files
  subprocesses,       \* the scraper subprocesses started and not yet ended
  folder_files,       \* the files in the monitored folder
  new_items,          \* history: how often each file was returned in
                      \* newItems since the last accepted run_script
  runs,               \* the run_script requests handled
  \* discover_and_download_images_fast (imagesonly.py); its page_count,
  \* its position and the flag of its module are page_count, pc and
  \* shutdown_requested, its max_pages argument is cfg.max_pages
  to_visit, visited, image_urls,
  cur_url,            \* url, the page being processed
  pending,            \* the futures as_completed has not yielded yet
  downloaded_count, failed_count,
  submitted,          \* history: how often each image URL was submitted
  late_fetches,       \* history: page fetches started with the flag set
  late_counts,        \* history: results counted with the flag set
  observed            \* history: the function has read the flag as set

panel == << scraping_active, known_files, subprocesses, folder_files,
            new_items, runs >>

finder == << to_visit, visited, image_urls, cur_url, pending,
             downloaded_count, failed_count, submitted, late_fetches,
             late_counts, observed >>

vars == << cfg, pc, to_visit_pages, to_visit_resources, visited_pages,
           downloaded, dl_order, page_count, resource_count, resource_batch,
           files, mapping, rw_todo, fetch_log, enq_log, page_skips, rw_log,
           shutdown_requested, call_log, panel, finder >>

\* what no step of mirror() assigns: its arguments, the flag, the calls,
\* the control panel and the image finder
outside == << cfg, shutdown_requested, call_log, panel, finder >>

\* the collections of mirror() and its histories
mirror_data == << to_visit_pages, to_visit_resources, visited_pages,
                  downloaded, dl_order, resource_count, resource_batch,
                  files, mapping, rw_todo, fetch_log, enq_log, page_skips,
                  rw_log >>

\* the image URLs the pages of the site refer to
SiteImages == {"a.jpg", "b.jpg"}

\* the files the scrapers can put in the monitored folder
PanelFiles == {"a.jpg", "b.jpg", "c.png"}

\* main.py lines 29-35: the globals of the control panel at import
PanelIdle ==
  /\ scraping_active = FALSE
  /\ known_files = {}
  /\ subprocesses = 0
  /\ folder_files = {}
  /\ new_items = [f \in PanelFiles |-> 0]
  /\ runs = 0

\* the image finder before discover_and_download_images_fast is called
FinderIdle ==
  /\ to_visit = <<>>
  /\ visited = {}
  /\ image_urls = {}
  /\ cur_url = ""
  /\ pending = {}
  /\ downloaded_count = 0
  /\ failed_count = 0
  /\ submitted = [u \in SiteImages |-> 0]
  /\ late_fetches = 0
  /\ late_counts = 0
  /\ observed = FALSE

base_netloc == cfg.start_url.host

\* allowed_by_robots(url)
allowed_by_robots(u) ==
  IF ~cfg.obey_robots THEN TRUE ELSE RobotsCanFetch(cfg.robots, u)

\* d[k] = v on a dict
DictSet(d, k, v) == [x \in DOMAIN d \cup {k} |-> IF x = k THEN v ELSE d[x]]

OrderAdd(order, d, k) == IF k \in DOMAIN d THEN order ELSE Append(order, k)

InSeq(x, s) == \E i \in 1..Len(s) : s[i] = x

Init ==
  /\ cfg \in Configs
  /\ pc = "crawl"
  /\ to_visit_pages = <<cfg.start_url>>
  /\ to_visit_resources = <<>>
  /\ visited_pages = {}
  /\ downloaded = <<>>
  /\ dl_order = <<>>
  /\ page_count = 0
  /\ resource_count = 0
  /\ resource_batch = <<>>
  /\ files = <<>>
  /\ mapping = <<>>
  /\ rw_todo = <<>>
  /\ fetch_log = <<>>
  /\ enq_log = <<>>
  /\ page_skips = 0
  /\ rw_log = <<>>
  /\ shutdown_requested = FALSE
  /\ call_log = <<>>
  /\ PanelIdle
  /\ FinderIdle

\* the loop condition with the budget test off by one
LoopCond_BudgetOffByOne ==
  /\ (to_visit_pages # <<>> \/ to_visit_resources # <<>>)
  /\ page_count <= cfg.max_pages

\* the loop condition without the resource queue
LoopCond_PagesOnly ==
  /\ to_visit_pages # <<>>
  /\ page_count < cfg.max_pages

\* the condition of the crawl loop
LoopCond ==
  /\ (to_visit_pages # <<>> \/ to_visit_resources # <<>>)
  /\ page_count < cfg.max_pages

\* a branch test that serves the resource queue first
PageBranch_ResourcesFirst == to_visit_pages # <<>> /\ to_visit_resources = <<>>

\* "if to_visit_pages:" - the iteration takes a page; otherwise a batch
PageBranch == to_visit_pages # <<>>

\* the Location header of the first response of fetch_url(url), NoneV when
\* that response is not a redirect that fetch_url follows
FetchVia(u) == {NoneV} \cup Redirects(cfg.site, u)

\* the requests one call of fetch_url sends: the GET of url and, after a
\* redirect, the GET of its Location; ok tells whether the call returned a
\* response
FetchLog(log, u, kind, ok, via) ==
  LET first == Append(log, [url |-> u, kind |-> kind, ok |-> ok])
  IN  IF via = NoneV THEN first
      ELSE Append(first, [url |-> via, kind |-> "redirect", ok |-> ok])

\* ------------------------------------------------------------------------
\* Discovery: the two loops of the page branch over the parsed document
\* ------------------------------------------------------------------------
\* the state the loops thread: both queues and the history of appends
Enq(st, u, q, term) ==
  [pages |-> IF q = "page" THEN Append(st.pages, u) ELSE st.pages,
   res |-> IF q = "res" THEN Append(st.res, u) ELSE st.res,
   log |-> Append(st.log, [url |-> u, q |-> q, terminal |-> term])]

\* a URL that has reached a terminal state: visited, or a key of downloaded
IsTerminal(u, vis, dl) == u \in vis \/ u \in DOMAIN dl

\* the body of the loop over RESOURCE_TAGS for one attribute value
DiscoverRef(st, url, tag, attr, l, vis, dl) ==
  LET abs_r == normalize_url(url, l)
      term == IsTerminal(abs_r, vis, dl)
  IN  IF attr = "srcset"
      THEN IF /\ abs_r # NoneV
              /\ abs_r \notin DOMAIN dl
              /\ ~InSeq(abs_r, st.res)
              /\ ~InSeq(abs_r, st.pages)
           THEN IF looks_like_resource(abs_r)
                THEN Enq(st, abs_r, "res", term)
                ELSE Enq(st, abs_r, "page", term)
           ELSE st
      ELSE IF abs_r = NoneV THEN st
      ELSE IF abs_r \in DOMAIN dl THEN st
      ELSE IF looks_like_resource(abs_r)
           THEN IF ~InSeq(abs_r, st.res)
                THEN Enq(st, abs_r, "res", term) ELSE st
      ELSE IF tag \in {"a", "iframe"}
           THEN IF ~InSeq(abs_r, st.pages)
                THEN Enq(st, abs_r, "page", term) ELSE st
      ELSE IF ~InSeq(abs_r, st.res)
           THEN Enq(st, abs_r, "res", term) ELSE st

\* the body of the loop over soup.find_all("a", href=True)
DiscoverAnchor(st, url, l, vis, dl) ==
  LET abs_a == normalize_url(url, l)
      term == IsTerminal(abs_a, vis, dl)
  IN  IF abs_a = NoneV THEN st
      ELSE IF cfg.same_domain_only /\ ~is_same_origin(base_netloc, abs_a)
      THEN st
      ELSE IF abs_a \in vis \/ InSeq(abs_a, st.pages) THEN st
      ELSE IF looks_like_resource(abs_a)
      THEN Enq(st, abs_a, "res", term)
      ELSE Enq(st, abs_a, "page", term)

\* the attribute values the first loop meets, in its order: by RESOURCE_TAGS
\* entry, then by document order, then by srcset candidate
RECURSIVE CandRefs(_, _, _)
CandRefs(node, j, acc) ==
  IF j > Len(node.cands) THEN acc
  ELSE CandRefs(node, j + 1,
                Append(acc, [tag |-> node.tag, attr |-> node.attr,
                             link |-> node.cands[j].link]))

RECURSIVE NodeRefs(_, _, _, _)
NodeRefs(nodes, i, ta, acc) ==
  IF i > Len(nodes) THEN acc
  ELSE NodeRefs(nodes, i + 1, ta,
                IF nodes[i].tag = ta[1] /\ nodes[i].attr = ta[2]
                THEN CandRefs(nodes[i], 1, acc) ELSE acc)

RECURSIVE TagRefs(_, _, _)
TagRefs(nodes, k, acc) ==
  IF k > Len(RESOURCE_TAGS) THEN acc
  ELSE TagRefs(nodes, k + 1, NodeRefs(nodes, 1, RESOURCE_TAGS[k], acc))

AnchorRefs(nodes) ==
  SelectSeq(nodes, LAMBDA n : n.tag = "a" /\ n.attr = "href")

RECURSIVE DiscoverRefs(_, _, _, _, _)
DiscoverRefs(st, url, refs, vis, dl) ==
  IF refs = <<>> THEN st
  ELSE DiscoverRefs(DiscoverRef(st, url, Head(refs).tag, Head(refs).attr,
                                Head(refs).link, vis, dl),
                    url, Tail(refs), vis, dl)

RECURSIVE DiscoverAnchors(_, _, _, _, _)
DiscoverAnchors(st, url, as, vis, dl) ==
  IF as = <<>> THEN st
  ELSE DiscoverAnchors(DiscoverAnchor(st, url, Head(as).cands[1].link, vis, dl),
                       url, Tail(as), vis, dl)

\* lines 430-488: what parsing a fetched page leaves in the queues
Discover(st, url, body, vis, dl) ==
  DiscoverAnchors(DiscoverRefs(st, url, TagRefs(body.nodes, 1, <<>>), vis, dl),
                  url, AnchorRefs(body.nodes), vis, dl)

\* ------------------------------------------------------------------------
\* The page branch of the crawl loop
\* ------------------------------------------------------------------------
HistUnchangedInPage == UNCHANGED << resource_batch, mapping, rw_todo, rw_log >>

\* the verdict without the test for an already visited page
PageVerdict_NoVisitedTest(url) ==
  IF cfg.same_domain_only /\ ~is_same_origin(base_netloc, url)
  THEN "cross_origin"
  ELSE IF ~allowed_by_robots(url) THEN "robots"
  ELSE "fetch"

\* what mirror() decides about a popped page before fetching it
PageVerdict(url) ==
  IF url \in visited_pages THEN "visited"
  ELSE IF cfg.same_domain_only /\ ~is_same_origin(base_netloc, url)
  THEN "cross_origin"
  ELSE IF ~allowed_by_robots(url) THEN "robots"
  ELSE "fetch"

\* the popped URL is dropped: already visited
PageAlreadyVisited ==
  /\ pc = "crawl" /\ LoopCond /\ PageBranch
  /\ PageVerdict(urldefrag(Head(to_visit_pages))) = "visited"
  /\ to_visit_pages' = Tail(to_visit_pages)
  /\ UNCHANGED << outside, pc, to_visit_resources, visited_pages, downloaded,
                  dl_order, page_count, resource_count, files, fetch_log,
                  enq_log, page_skips >>
  /\ HistUnchangedInPage

\* the popped URL is marked visited without a fetch: cross-origin or robots
PageSkipped ==
  /\ pc = "crawl" /\ LoopCond /\ PageBranch
  /\ LET url == urldefrag(Head(to_visit_pages))
     IN  /\ PageVerdict(url) \in {"cross_origin", "robots"}
         /\ visited_pages' = visited_pages \cup {url}
  /\ to_visit_pages' = Tail(to_visit_pages)
  /\ page_skips' = page_skips + 1
  /\ UNCHANGED << outside, pc, to_visit_resources, downloaded, dl_order,
                  page_count, resource_count, files, fetch_log, enq_log >>
  /\ HistUnchangedInPage

\* fetch_url returned None
PageFetchFailed ==
  /\ pc = "crawl" /\ LoopCond /\ PageBranch
  /\ LET url == urldefrag(Head(to_visit_pages))
     IN  /\ PageVerdict(url) = "fetch"
         /\ \E via \in FetchVia(url) :
              fetch_log' = FetchLog(fetch_log, url, "page", FALSE, via)
         /\ visited_pages' = visited_pages \cup {url}
  /\ to_visit_pages' = Tail(to_visit_pages)
  /\ UNCHANGED << outside, pc, to_visit_resources, downloaded, dl_order,
                  page_count, resource_count, files, enq_log, page_skips >>
  /\ HistUnchangedInPage

\* how save_text ends: written, an error it catches, or an error of
\* ensure_dir, which it does not catch
SaveOutcomes == {"ok", "write_error", "dir_error"}

\* the page was fetched: record, discover, save, count
PageFetched ==
  /\ pc = "crawl" /\ LoopCond /\ PageBranch
  /\ LET url == urldefrag(Head(to_visit_pages))
     IN  /\ PageVerdict(url) = "fetch"
         /\ ~PathError(url)
         /\ \E body \in PageBodies(cfg.site), save \in SaveOutcomes,
               via \in FetchVia(url) :
              LET local_page_path == url_to_path(OUTDIR, url)
                  dl == DictSet(downloaded, url, local_page_path)
                  st == Discover([pages |-> Tail(to_visit_pages),
                                  res |-> to_visit_resources, log |-> enq_log],
                                 url, body, visited_pages, dl)
              IN  /\ fetch_log' = FetchLog(fetch_log, url, "page", TRUE, via)
                  /\ downloaded' = dl
                  /\ dl_order' = OrderAdd(dl_order, downloaded, url)
                  /\ to_visit_pages' = st.pages
                  /\ to_visit_resources' = st.res
                  /\ enq_log' = st.log
                  /\ files' = IF save = "ok"
                              THEN DictSet(files, local_page_path, body)
                              ELSE files
                  /\ IF save = "dir_error"
                     THEN /\ pc' = "aborted"
                          /\ UNCHANGED << visited_pages, page_count >>
                     ELSE /\ pc' = pc
                          /\ visited_pages' = visited_pages \cup {url}
                          /\ page_count' = page_count + 1
  /\ UNCHANGED << outside, resource_count, page_skips >>
  /\ HistUnchangedInPage

\* ------------------------------------------------------------------------
\* The resource branch: building a batch, the workers, the write-back
\* ------------------------------------------------------------------------
\* a submitted task; n is the place of its fetch in fetch_log once it runs
Task(u, path) ==
  [url |-> u, path |-> path, st |-> "queued", ok |-> FALSE, n |-> 0]

\* batch_size = min(max_workers * 2, len(to_visit_resources))
BatchSize(n) == Min(cfg.max_workers * 2, n)

\* one iteration of the loop that pops the batch (lines 504-518)
PopResource(st) ==
  IF st.res = <<>> THEN st
  ELSE LET res_url == urldefrag(Head(st.res))
           rest == [st EXCEPT !.res = Tail(st.res)]
       IN  IF res_url \in DOMAIN st.dl THEN rest
           ELSE IF \/ cfg.same_domain_only /\ ~is_same_origin(base_netloc, res_url)
                   \/ ~allowed_by_robots(res_url)
           THEN [rest EXCEPT !.dl = DictSet(st.dl, res_url, NoneV),
                             !.order = OrderAdd(st.order, st.dl, res_url)]
           ELSE IF PathError(res_url) THEN [rest EXCEPT !.raised = TRUE]
           ELSE [rest EXCEPT !.batch = Append(st.batch,
                                Task(res_url, url_to_path(OUTDIR, res_url)))]

\* the loop ends early when url_to_path raises
RECURSIVE PopBatch(_, _)
PopBatch(st, n) ==
  IF n = 0 \/ st.raised THEN st ELSE PopBatch(PopResource(st), n - 1)

\* lines 498-529: pop a batch and submit it to the executor; the
\* AssertionError of url_to_path is caught nowhere and ends mirror()
BuildBatch ==
  /\ pc = "crawl" /\ LoopCond /\ ~PageBranch
  /\ LET st == PopBatch([res |-> to_visit_resources, dl |-> downloaded,
                         order |-> dl_order, batch |-> <<>>, raised |-> FALSE],
                        BatchSize(Len(to_visit_resources)))
     IN  /\ to_visit_resources' = st.res
         /\ downloaded' = st.dl
         /\ dl_order' = st.order
         /\ resource_batch' = IF st.raised THEN <<>> ELSE st.batch
         /\ pc' = IF st.raised THEN "aborted"
                  ELSE IF st.batch = <<>> THEN "crawl" ELSE "batch"
  /\ UNCHANGED << outside, to_visit_pages, visited_pages, page_count,
                  resource_count, files, mapping, rw_todo, fetch_log, enq_log,
                  page_skips, rw_log >>

Running == {i \in 1..Len(resource_batch) : resource_batch[i].st = "running"}

\* a pool that runs every submitted task at once
PoolHasIdleThread_Unlimited == TRUE

\* ThreadPoolExecutor(max_workers=max_workers): a submitted task starts only
\* when fewer than max_workers are running
PoolHasIdleThread == Cardinality(Running) < cfg.max_workers

\* a pool thread takes the next submitted task and calls fetch_url
WorkerStart(i) ==
  /\ pc = "batch"
  /\ resource_batch[i].st = "queued"
  /\ \A j \in 1..(i - 1) : resource_batch[j].st # "queued"
  /\ PoolHasIdleThread
  /\ resource_batch' = [resource_batch EXCEPT ![i].st = "running",
                                              ![i].n = Len(fetch_log) + 1]
  /\ \E via \in FetchVia(resource_batch[i].url) :
       fetch_log' = FetchLog(fetch_log, resource_batch[i].url, "resource",
                             TRUE, via)
  /\ UNCHANGED << outside, pc, to_visit_pages, to_visit_resources, visited_pages,
                  downloaded, dl_order, page_count, resource_count, files,
                  mapping, rw_todo, enq_log, page_skips, rw_log >>

\* download_resource_worker ends without a file: fetch_url returned None, or
\* save_binary failed
WorkerFails(i) ==
  /\ pc = "batch"
  /\ resource_batch[i].st = "running"
  /\ resource_batch' = [resource_batch EXCEPT ![i].st = "done", ![i].ok = FALSE]
  /\ fetch_log' = [fetch_log EXCEPT ![resource_batch[i].n].ok = FALSE]
  /\ UNCHANGED << outside, pc, to_visit_pages, to_visit_resources, visited_pages,
                  downloaded, dl_order, page_count, resource_count, files,
                  mapping, rw_todo, enq_log, page_skips, rw_log >>

\* download_resource_worker got a response.  An image is first copied to
\* images_dir when one is configured; when that copy is written it drains the
\* streamed response, so the save to local_path that follows truncates the
\* file, finds the stream consumed and reports failure.
WorkerSaves(i) ==
  /\ pc = "batch"
  /\ resource_batch[i].st = "running"
  /\ \E body \in ResourceBodies(cfg.site, resource_batch[i].url), copied \in BOOLEAN :
       LET t == resource_batch[i]
           drained == cfg.images_dir /\ is_image_url(t.url) /\ copied
       IN  /\ files' = DictSet(files, t.path, IF drained THEN EmptyFile ELSE body)
           /\ resource_batch' = [resource_batch EXCEPT ![i].st = "done",
                                                       ![i].ok = ~drained]
  /\ UNCHANGED << outside, pc, to_visit_pages, to_visit_resources, visited_pages,
                  downloaded, dl_order, page_count, resource_count, mapping,
                  rw_todo, fetch_log, enq_log, page_skips, rw_log >>

\* the url(...) references CSS_URL_RE finds in a text
CssUrlRefs(content) ==
  SelectSeq(content.nodes,
            LAMBDA n : n.tag \in {"css", "style"} \/ n.attr = "style")

\* lines 546-550: enqueue what a downloaded style sheet references
RECURSIVE DiscoverCss(_, _, _, _, _)
DiscoverCss(st, css_url, refs, vis, dl) ==
  IF refs = <<>> THEN st
  ELSE LET abs_r == normalize_url(css_url, Head(refs).cands[1].link)
           nxt == IF /\ abs_r # NoneV
                     /\ abs_r \notin DOMAIN dl
                     /\ ~InSeq(abs_r, st.res)
                  THEN Enq(st, abs_r, "res", IsTerminal(abs_r, vis, dl))
                  ELSE st
       IN  DiscoverCss(nxt, css_url, Tail(refs), vis, dl)

AllCollectedBut(i) ==
  \A j \in 1..Len(resource_batch) : j # i => resource_batch[j].st = "collected"

\* lines 532-567: the main thread takes one completed future and writes its
\* result back; after the last one the batch is over
Collect(i) ==
  /\ pc = "batch"
  /\ resource_batch[i].st = "done"
  /\ LET t == resource_batch[i]
         dl == DictSet(downloaded, t.url, IF t.ok THEN t.path ELSE NoneV)
         text == IF t.path \in DOMAIN files THEN files[t.path] ELSE EmptyFile
         st0 == [pages |-> to_visit_pages, res |-> to_visit_resources,
                 log |-> enq_log]
         st == IF t.ok /\ UrlEndsWith(t.url, ".css")
               THEN DiscoverCss(st0, t.url, CssUrlRefs(text), visited_pages, dl)
               ELSE st0
     IN  /\ downloaded' = dl
         /\ dl_order' = OrderAdd(dl_order, downloaded, t.url)
         /\ resource_count' = IF t.ok THEN resource_count + 1 ELSE resource_count
         /\ to_visit_resources' = st.res
         /\ enq_log' = st.log
  /\ IF AllCollectedBut(i)
     THEN pc' = "crawl" /\ resource_batch' = <<>>
     ELSE pc' = pc /\ resource_batch' = [resource_batch EXCEPT ![i].st = "collected"]
  /\ UNCHANGED << outside, to_visit_pages, visited_pages, page_count, files,
                  mapping, rw_todo, fetch_log, page_skips, rw_log >>

\* ------------------------------------------------------------------------
\* Link Rewriter: the second pass
\* ------------------------------------------------------------------------
\* a rewrite map that keeps the saved pages only
BuildMapping_PagesOnly(dl) ==
  [k \in {x \in DOMAIN dl : dl[x] # NoneV /\ dl[x].ext = ".html"} |-> dl[k]]

\* mapping = {k: v for k, v in downloaded.items() if v}
\* a map that leaves the pages out
BuildMapping_ResourcesOnly(dl) ==
  [k \in {x \in DOMAIN dl : dl[x] # NoneV /\ dl[x].ext # ".html"} |-> dl[k]]

BuildMapping(dl) ==
  [k \in {x \in DOMAIN dl : dl[x] # NoneV} |-> dl[k]]

RECURSIVE Items(_, _)
Items(order, dl) ==
  IF order = <<>> THEN <<>>
  ELSE <<[url |-> Head(order), path |-> dl[Head(order)]]>>
         \o Items(Tail(order), dl)

\* the crawl loop has ended: build the rewrite map and start the second pass
StartRewrite ==
  /\ pc = "crawl" /\ ~LoopCond
  /\ pc' = "rewrite"
  /\ mapping' = BuildMapping(downloaded)
  /\ rw_todo' = Items(dl_order, downloaded)
  /\ UNCHANGED << outside, to_visit_pages, to_visit_resources, visited_pages,
                  downloaded, dl_order, page_count, resource_count,
                  resource_batch, files, fetch_log, enq_log, page_skips,
                  rw_log >>

\* a rewrite that does not consult the map: every reference becomes the
\* local path its target would have
RewriteLink_Always(l, page_url, map, anchor) ==
  LET abs_u == normalize_url(page_url, l)
  IN  IF abs_u # NoneV
      THEN RelPath(url_to_path(OUTDIR, abs_u), DirName(anchor))
      ELSE l

\* one reference: replaced by the relative local path when its target is in
\* the rewrite map, left as it is otherwise
RewriteLink(l, page_url, map, anchor) ==
  LET abs_u == normalize_url(page_url, l)
  IN  IF abs_u # NoneV /\ abs_u \in DOMAIN map
      THEN RelPath(map[abs_u], DirName(anchor))
      ELSE l

\* the attributes rewrite_html_links touches, and the url(...) of a CSS text
Rewritable(n) ==
  \/ \E k \in 1..Len(RESOURCE_TAGS) : RESOURCE_TAGS[k] = <<n.tag, n.attr>>
  \/ n.tag \in {"css", "style"}
  \/ n.attr = "style"

\* a rewrite that keeps only the URL of each candidate
RewriteNode_UrlsOnly(n, page_url, map, anchor) ==
  IF Rewritable(n)
  THEN [n EXCEPT !.cands =
          [j \in 1..Len(n.cands) |->
             Cand(RewriteLink(n.cands[j].link, page_url, map, anchor), "")]]
  ELSE n

\* one attribute value: each candidate's URL goes through RewriteLink, the
\* rest of the candidate (the descriptor of a srcset entry) is kept
RewriteNode(n, page_url, map, anchor) ==
  IF Rewritable(n)
  THEN [n EXCEPT !.cands =
          [j \in 1..Len(n.cands) |->
             [n.cands[j] EXCEPT !.link = RewriteLink(n.cands[j].link, page_url,
                                                     map, anchor)]]]
  ELSE n

\* rewrite_html_links / rewrite_css_urls on a parsed content
RewriteContent(content, page_url, map, anchor) ==
  [content EXCEPT !.nodes =
     [i \in 1..Len(content.nodes) |->
        RewriteNode(content.nodes[i], page_url, map, anchor)]]

\* the references of a content as read (old) and as rewritten (new)
RECURSIVE LogCands(_, _, _, _, _)
LogCands(acc, old, new, i, j) ==
  IF i > Len(old.nodes) THEN acc
  ELSE IF j > Len(old.nodes[i].cands) THEN LogCands(acc, old, new, i + 1, 1)
  ELSE LogCands(Append(acc, [tag |-> old.nodes[i].tag,
                             attr |-> old.nodes[i].attr,
                             old |-> old.nodes[i].cands[j].link,
                             new |-> new.nodes[i].cands[j].link]),
                old, new, i, j + 1)

RewriteExts == {".html", ".htm", ".css"}

\* an entry the second pass leaves alone: no local path, or neither an
\* .html/.htm nor a .css file, or a file that cannot be read
RewriteSkip ==
  /\ pc = "rewrite" /\ rw_todo # <<>>
  /\ LET item == Head(rw_todo)
     IN  IF item.path = NoneV THEN TRUE
         ELSE \/ Lower(item.path.ext) \notin RewriteExts
              \/ item.path \notin DOMAIN files
  /\ rw_todo' = Tail(rw_todo)
  /\ UNCHANGED << outside, pc, to_visit_pages, to_visit_resources, visited_pages,
                  downloaded, dl_order, page_count, resource_count,
                  resource_batch, files, mapping, fetch_log, enq_log,
                  page_skips, rw_log >>

\* lines 586-604: read, rewrite and save one page or style sheet
RewriteFile ==
  /\ pc = "rewrite" /\ rw_todo # <<>>
  /\ LET item == Head(rw_todo)
     IN  /\ item.path # NoneV
         /\ Lower(item.path.ext) \in RewriteExts
         /\ item.path \in DOMAIN files
         /\ \E saved \in BOOLEAN :
              LET txt == files[item.path]
                  anchor == IF Lower(item.path.ext) = ".css"
                            THEN item.path ELSE mapping[item.url]
                  new == RewriteContent(txt, item.url, mapping, anchor)
              IN  /\ files' = IF saved THEN DictSet(files, item.path, new)
                                       ELSE files
                  /\ rw_log' = Append(rw_log,
                                      [page |-> item.url, path |-> item.path,
                                       saved |-> saved,
                                       before |-> txt, after |-> new,
                                       refs |-> LogCands(<<>>, txt, new, 1, 1)])
  /\ rw_todo' = Tail(rw_todo)
  /\ UNCHANGED << outside, pc, to_visit_pages, to_visit_resources, visited_pages,
                  downloaded, dl_order, page_count, resource_count,
                  resource_batch, mapping, fetch_log, enq_log, page_skips >>

\* the summary is printed and mirror() returns
Finish ==
  /\ pc = "rewrite" /\ rw_todo = <<>>
  /\ pc' = "done"
  /\ UNCHANGED << outside, to_visit_pages, to_visit_resources, visited_pages,
                  downloaded, dl_order, page_count, resource_count,
                  resource_batch, files, mapping, rw_todo, fetch_log, enq_log,
                  page_skips, rw_log >>

\* main() installs signal_handler before it calls mirror(), and it is the
\* caller that passes images_dir; a direct call of mirror() has neither
HandlerInstalled == cfg.images_dir

\* SIGINT arrives while mirror() runs
signal_handler ==
  /\ HandlerInstalled
  /\ pc \in {"crawl", "batch", "rewrite"}
  /\ ~shutdown_requested
  /\ shutdown_requested' = TRUE
  /\ UNCHANGED << cfg, call_log, pc, to_visit_pages, to_visit_resources,
                  visited_pages, downloaded, dl_order, page_count,
                  resource_count, resource_batch, files, mapping, rw_todo,
                  fetch_log, enq_log, page_skips, rw_log, panel, finder >>

Next ==
  \/ PageAlreadyVisited
  \/ PageSkipped
  \/ PageFetchFailed
  \/ PageFetched
  \/ BuildBatch
  \/ \E i \in 1..Len(resource_batch) : WorkerStart(i)
  \/ \E i \in 1..Len(resource_batch) : WorkerFails(i)
  \/ \E i \in 1..Len(resource_batch) : WorkerSaves(i)
  \/ \E i \in 1..Len(resource_batch) : Collect(i)
  \/ StartRewrite
  \/ RewriteSkip
  \/ RewriteFile
  \/ Finish
  \/ signal_handler

Spec == Init /\ [][Next]_vars

\* ------------------------------------------------------------------------
\* The pure functions called on their own: url_to_path and is_same_origin
\* ------------------------------------------------------------------------
PathDirs == { <<>>, <<"about">>, <<"..", "..">>, <<".", "a">> }

\* the last path component as os.path.splitext splits it
PathNames ==
  { <<"", "">>, <<"about", "">>, <<"index", ".html">>, <<"a", ".png">> }

PathQueries == { "", "v=1", "v=7141", "v=137874" }

\* absolute URLs with a host: https://ex.test/<dirs>/<name>?<query>
PathUrls ==
  { [scheme |-> "https", host |-> HOST, dirs |-> d, file |-> f[1],
     ext |-> f[2], query |-> q, frag |-> ""] :
      d \in PathDirs, f \in PathNames, q \in PathQueries }

\* absolute URLs without a host: file:///x.png, with and without a query
NoHostUrls ==
  { [scheme |-> "file", host |-> "", dirs |-> <<>>, file |-> "x",
     ext |-> ".png", query |-> q, frag |-> ""] : q \in { "", "v=1" } }

\* the links normalize_url is called with on its own: about#top,
\* javascript:void, JavaScript:void, bg.png (relative), https://evil.com/p,
\* file:///x.png; and the base URL they are resolved against
NormLinks == { L_about_frag, L_js, L_JS, L_bg, L_evil, L_file }

NormBase == [Url(HOST, <<"css">>, "page", ".php") EXCEPT !.frag = "top"]

\* what one session.get ends with: a response with a status code, or an
\* exception of requests (connection, DNS, timeout, too many redirects)
Resp(status) == [raised |-> FALSE, status |-> status]

RequestFailed == [raised |-> TRUE, status |-> 0]

GetOutcomes == { RequestFailed, Resp(200), Resp(302), Resp(304), Resp(404),
                 Resp(500) }

\* the status codes fetch_url follows by hand
RedirectCodes == { 301, 302, 303, 307, 308 }

\* resp.raise_for_status(): HTTPError for 4xx and 5xx only
RaisesForStatus(status) == 400 <= status /\ status < 600

\* fetch_url: first is the outcome of the GET with allow_redirects=False,
\* location tells whether that response carries a Location header, second
\* is the outcome of the GET of the Location.  Returns the response it hands
\* back, NoneV when it returns None.
fetch_url(first, location, second) ==
  IF first.raised THEN NoneV
  ELSE LET resp == IF first.status \in RedirectCodes /\ location THEN second
                   ELSE first
       IN  IF resp.raised THEN NoneV
           ELSE IF RaisesForStatus(resp.status) THEN NoneV
           ELSE resp

\* the outcome of the last request fetch_url made
TerminalOutcome(first, location, second) ==
  IF ~first.raised /\ first.status \in RedirectCodes /\ location THEN second
  ELSE first

Netlocs == { "example.com", "www.example.com", "cdn.example.com", "evil.com" }

\* a netloc as its dot-separated labels
Labels(h) ==
  CASE h = "example.com" -> <<"example", "com">>
    [] h = "www.example.com" -> <<"www", "example", "com">>
    [] h = "cdn.example.com" -> <<"cdn", "example", "com">>
    [] h = "evil.com" -> <<"evil", "com">>

IsSuffix(a, b) == Len(a) <= Len(b) /\ SubSeq(b, Len(b) - Len(a) + 1, Len(b)) = a

\* the subdomain prefixes imagesonly.py takes for a CDN of the site
CdnPrefixes == { "cdn", "assets", "media", "images", "static" }

\* imagesonly.is_same_origin(base_netloc, url): the same netloc, the same
\* netloc once every "www." is removed, a netloc with a CDN prefix in it, or
\* a subdomain of the base domain
imagesonly_is_same_origin(base, u) ==
  LET url_labels == Labels(u.host)
      base_domain == SelectSeq(Labels(base), LAMBDA x : x # "www")
      url_domain == SelectSeq(url_labels, LAMBDA x : x # "www")
  IN  \/ u.host = base
      \/ base_domain = url_domain
      \/ \E k \in 1..(Len(url_labels) - 1) : url_labels[k] \in CdnPrefixes
      \/ /\ Len(url_domain) > Len(base_domain)
         /\ IsSuffix(base_domain, url_domain)

\* no run of mirror(): only the functions are called
CallInit ==
  /\ cfg \in { c \in Configs :
                 /\ c.max_pages = 0 /\ c.max_workers = 1 /\ c.site = "open"
                 /\ ~c.same_domain_only /\ ~c.obey_robots /\ ~c.images_dir
                 /\ c.start_url.file = "" }
  /\ pc = "calls"
  /\ to_visit_pages = <<>>
  /\ to_visit_resources = <<>>
  /\ visited_pages = {}
  /\ downloaded = <<>>
  /\ dl_order = <<>>
  /\ page_count = 0
  /\ resource_count = 0
  /\ resource_batch = <<>>
  /\ files = <<>>
  /\ mapping = <<>>
  /\ rw_todo = <<>>
  /\ fetch_log = <<>>
  /\ enq_log = <<>>
  /\ page_skips = 0
  /\ rw_log = <<>>
  /\ shutdown_requested = FALSE
  /\ call_log = <<>>
  /\ PanelIdle
  /\ FinderIdle

CallUnchanged ==
  UNCHANGED << cfg, shutdown_requested, pc, to_visit_pages,
               to_visit_resources, visited_pages, downloaded, dl_order,
               page_count, resource_count, resource_batch, files, mapping,
               rw_todo, fetch_log, enq_log, page_skips, rw_log, panel,
               finder >>

\* url_to_path(OUTDIR, netloc, url) is called: it raises on its assertion,
\* or it returns the path it computed
Call_url_to_path ==
  /\ pc = "calls" /\ Len(call_log) < MaxCalls
  /\ \E u \in PathUrls \cup NoHostUrls :
       call_log' = Append(call_log,
                          IF PathError(u)
                          THEN [fn |-> "url_to_path", url |-> u,
                                raised |-> TRUE, ret |-> NoneV]
                          ELSE [fn |-> "url_to_path", url |-> u,
                                raised |-> FALSE,
                                ret |-> url_to_path(OUTDIR, u)])
  /\ CallUnchanged

\* is_same_origin(base_netloc, url) is called and returns
Call_is_same_origin ==
  /\ pc = "calls" /\ Len(call_log) < MaxCalls
  /\ \E b \in Netlocs, h \in Netlocs :
       call_log' = Append(call_log,
                          [fn |-> "is_same_origin", base |-> b,
                           url |-> Url(h, <<>>, "x", ""),
                           ret |-> is_same_origin(b, Url(h, <<>>, "x", ""))])
  /\ CallUnchanged

\* fetch_url(session, url) is called against a server and returns; a second
\* request is only made for a followed redirect
Call_fetch_url ==
  /\ pc = "calls" /\ Len(call_log) < MaxCalls
  /\ \E first \in GetOutcomes, location \in BOOLEAN, second \in GetOutcomes :
       /\ location => first.status \in RedirectCodes
       /\ ~location => second = RequestFailed
       /\ second # Resp(302)
       /\ call_log' = Append(call_log,
                             [fn |-> "fetch_url", first |-> first,
                              location |-> location,
                              terminal |-> TerminalOutcome(first, location, second),
                              ret |-> fetch_url(first, location, second)])
  /\ CallUnchanged

\* is_same_origin of imagesonly.py is called and returns
Call_imagesonly_is_same_origin ==
  /\ pc = "calls" /\ Len(call_log) < MaxCalls
  /\ \E b \in { "example.com", "www.example.com" }, h \in Netlocs :
       call_log' = Append(call_log,
                          [fn |-> "imagesonly.is_same_origin", base |-> b,
                           url |-> Url(h, <<>>, "x", ""),
                           ret |-> imagesonly_is_same_origin(
                                      b, Url(h, <<>>, "x", ""))])
  /\ CallUnchanged

\* normalize_url(base_url, link) is called and returns
Call_normalize_url ==
  /\ pc = "calls" /\ Len(call_log) < MaxCalls
  /\ \E l \in NormLinks :
       call_log' = Append(call_log, [fn |-> "normalize_url", link |-> l,
                                     ret |-> normalize_url(NormBase, l)])
  /\ CallUnchanged

CallNext ==
  \/ Call_url_to_path
  \/ Call_is_same_origin
  \/ Call_fetch_url
  \/ Call_normalize_url
  \/ Call_imagesonly_is_same_origin

CallSpec == CallInit /\ [][CallNext]_vars

\* ------------------------------------------------------------------------
\* The control panel (main.py): run_script, the thread that waits for the
\* subprocess, and get_scraping_status.  HTTPServer handles one request at
\* a time, so the two handlers are atomic with respect to each other; the
\* thread and the subprocess run beside them.
\* ------------------------------------------------------------------------
\* the arguments of mirror() while no run of mirror() is modelled
IdleConfigs ==
  { c \in Configs :
      /\ c.max_pages = 0 /\ c.max_workers = 1 /\ c.site = "open"
      /\ ~c.same_domain_only /\ ~c.obey_robots /\ ~c.images_dir
      /\ c.start_url.file = "" }

\* mirror() is not running: its collections and histories are empty
MirrorIdle ==
  /\ to_visit_pages = <<>>
  /\ to_visit_resources = <<>>
  /\ visited_pages = {}
  /\ downloaded = <<>>
  /\ dl_order = <<>>
  /\ resource_count = 0
  /\ resource_batch = <<>>
  /\ files = <<>>
  /\ mapping = <<>>
  /\ rw_todo = <<>>
  /\ fetch_log = <<>>
  /\ enq_log = <<>>
  /\ page_skips = 0
  /\ rw_log = <<>>
  /\ call_log = <<>>

PanelInit ==
  /\ cfg \in IdleConfigs
  /\ pc = "panel"
  /\ page_count = 0
  /\ shutdown_requested = FALSE
  /\ MirrorIdle
  /\ PanelIdle
  /\ FinderIdle

PanelUnchanged ==
  UNCHANGED << cfg, shutdown_requested, call_log, pc, page_count,
               mirror_data, finder >>

\* the scripts run_script accepts (line 144)
Scripts == {"scrape.py", "imagesonly.py"}

\* run_script: a POST naming a script.  A name that is not accepted raises
\* before anything is assigned, and the handler's except clause clears the
\* flag.  An accepted name sets the flag, empties _known_files and starts
\* the thread; when the response then cannot be written (sent = FALSE) the
\* same except clause clears the flag with the thread already started.
run_script(script, sent) ==
  /\ pc = "panel"
  /\ runs < MaxRuns
  /\ runs' = runs + 1
  /\ IF script \notin Scripts
     THEN /\ scraping_active' = FALSE
          /\ UNCHANGED << known_files, subprocesses, new_items >>
     ELSE /\ scraping_active' = sent
          /\ known_files' = {}
          /\ subprocesses' = subprocesses + 1
          /\ new_items' = [f \in PanelFiles |-> 0]
  /\ UNCHANGED folder_files
  /\ PanelUnchanged

\* a running scraper saves a file under the monitored folder
SubprocessWrites(f) ==
  /\ pc = "panel"
  /\ subprocesses > 0
  /\ f \notin folder_files
  /\ folder_files' = folder_files \cup {f}
  /\ UNCHANGED << scraping_active, known_files, subprocesses, new_items,
                  runs >>
  /\ PanelUnchanged

\* run_script_thread: the subprocess has ended and the finally clause runs.
\* Its assignment _scraping_active = False is in the nested function, which
\* has no global statement of its own, so it binds a local name and the
\* module-level flag keeps its value.
run_script_thread ==
  /\ pc = "panel"
  /\ subprocesses > 0
  /\ subprocesses' = subprocesses - 1
  /\ UNCHANGED << scraping_active, known_files, folder_files, new_items,
                  runs >>
  /\ PanelUnchanged

\* get_scraping_status: nothing is scanned while the flag is off; otherwise
\* every file of the folder that is not in _known_files is added to it and
\* returned in newItems
get_scraping_status ==
  /\ pc = "panel"
  /\ scraping_active
  /\ known_files' = known_files \cup folder_files
  /\ new_items' = [f \in PanelFiles |->
                     IF f \in folder_files \ known_files
                     THEN new_items[f] + 1 ELSE new_items[f]]
  /\ UNCHANGED << scraping_active, subprocesses, folder_files, runs >>
  /\ PanelUnchanged

PanelNext ==
  \/ \E script \in Scripts \cup {"other.py"}, sent \in BOOLEAN :
       run_script(script, sent)
  \/ \E f \in PanelFiles : SubprocessWrites(f)
  \/ run_script_thread
  \/ get_scraping_status

\* the page of the panel keeps polling /api/scraping-status
PanelSpec == PanelInit /\ [][PanelNext]_vars /\ WF_vars(get_scraping_status)

\* ------------------------------------------------------------------------
\* The image finder (imagesonly.py): discover_and_download_images_fast.
\* Pages and images are named by their normalised same-origin URLs.  The
\* signal handler runs between any two steps of the function, so each
\* place where the function reads the flag is a step of its own.
\* ------------------------------------------------------------------------
\* the image URLs the four detection methods find in a page
PageImages(p) ==
  CASE p = "p1" -> {"a.jpg"}
    [] p = "p2" -> {"a.jpg", "b.jpg"}
    [] OTHER -> {}

\* the <a href> targets of a page, in document order
PageLinks(p) ==
  CASE p = "p1" -> <<"p1", "p2">>
    [] p = "p2" -> <<"p3">>
    [] OTHER -> <<>>

\* lines 523-531: the locals at the start of the function
ImagesInit ==
  /\ cfg \in { c \in Configs :
                 /\ c.max_pages > 0 /\ c.max_workers = 1 /\ c.site = "open"
                 /\ ~c.same_domain_only /\ ~c.obey_robots /\ ~c.images_dir
                 /\ c.start_url.file = "" }
  /\ pc = "img_loop"
  /\ page_count = 0
  /\ shutdown_requested = FALSE
  /\ MirrorIdle
  /\ PanelIdle
  /\ to_visit = <<"p1">>
  /\ visited = {}
  /\ image_urls = {}
  /\ cur_url = ""
  /\ pending = {}
  /\ downloaded_count = 0
  /\ failed_count = 0
  /\ submitted = [u \in SiteImages |-> 0]
  /\ late_fetches = 0
  /\ late_counts = 0
  /\ observed = FALSE

\* a loop that goes on whatever the flag says
ImgLoopCond_IgnoresFlag ==
  to_visit # <<>> /\ page_count < cfg.max_pages

\* line 533: while to_visit and page_count < max_pages and not
\* shutdown_requested
ImgLoopCond ==
  to_visit # <<>> /\ page_count < cfg.max_pages /\ ~shutdown_requested

\* lines 533-543: the loop test, the pop and the visited test
NextPage ==
  /\ pc = "img_loop"
  /\ IF ImgLoopCond
     THEN /\ to_visit' = Tail(to_visit)
          /\ IF Head(to_visit) \in visited
             THEN /\ pc' = "img_loop"
                  /\ UNCHANGED << page_count, cur_url >>
             ELSE /\ pc' = "img_delay"
                  /\ page_count' = page_count + 1
                  /\ cur_url' = Head(to_visit)
          /\ UNCHANGED observed
     ELSE /\ pc' = "img_done"
          /\ observed' = (observed \/ (/\ to_visit # <<>>
                                       /\ page_count < cfg.max_pages
                                       /\ shutdown_requested))
          /\ UNCHANGED << to_visit, page_count, cur_url >>
  /\ UNCHANGED << cfg, call_log, mirror_data, panel, shutdown_requested,
                  visited, image_urls, pending, downloaded_count,
                  failed_count, submitted, late_fetches, late_counts >>

\* lines 546-552: after the delay the flag is read again
CheckAfterDelay ==
  /\ pc = "img_delay"
  /\ IF shutdown_requested
     THEN pc' = "img_done" /\ observed' = TRUE
     ELSE pc' = "img_fetch" /\ UNCHANGED observed
  /\ UNCHANGED << cfg, call_log, mirror_data, panel, shutdown_requested,
                  page_count, to_visit, visited, image_urls, cur_url,
                  pending, downloaded_count, failed_count, submitted,
                  late_fetches, late_counts >>

\* lines 555-648: session.get; a page that cannot be fetched is marked
\* visited; for an HTML page the images found are added to image_urls and
\* every URL of image_urls is submitted to the executor
FetchPage(outcome) ==
  /\ pc = "img_fetch"
  /\ late_fetches' = late_fetches + (IF shutdown_requested THEN 1 ELSE 0)
  /\ IF outcome = "html"
     THEN LET found == image_urls \cup PageImages(cur_url)
          IN  /\ image_urls' = found
              /\ pending' = found
              /\ submitted' = [u \in SiteImages |->
                                 IF u \in found THEN submitted[u] + 1
                                                ELSE submitted[u]]
              /\ pc' = "img_collect"
              /\ UNCHANGED visited
     ELSE /\ visited' = visited \cup {cur_url}
          /\ pc' = "img_loop"
          /\ UNCHANGED << image_urls, pending, submitted >>
  /\ UNCHANGED << cfg, call_log, mirror_data, panel, shutdown_requested,
                  page_count, to_visit, cur_url, downloaded_count,
                  failed_count, late_counts, observed >>

\* lines 650-652: as_completed yields a future and the flag is read; when
\* it is set the loop is left and no other future is yielded
NextResult ==
  /\ pc = "img_collect"
  /\ pending # {}
  /\ IF shutdown_requested
     THEN /\ pending' = {}
          /\ observed' = TRUE
          /\ pc' = "img_collect"
     ELSE /\ \E f \in pending : pending' = pending \ {f}
          /\ pc' = "img_count"
          /\ UNCHANGED observed
  /\ UNCHANGED << cfg, call_log, mirror_data, panel, shutdown_requested,
                  page_count, to_visit, visited, image_urls, cur_url,
                  downloaded_count, failed_count, submitted, late_fetches,
                  late_counts >>

\* lines 653-666: the result of the future is counted
CountResult(success) ==
  /\ pc = "img_count"
  /\ IF success
     THEN downloaded_count' = downloaded_count + 1 /\ UNCHANGED failed_count
     ELSE failed_count' = failed_count + 1 /\ UNCHANGED downloaded_count
  /\ late_counts' = late_counts + (IF shutdown_requested THEN 1 ELSE 0)
  /\ pc' = "img_collect"
  /\ UNCHANGED << cfg, call_log, mirror_data, panel, shutdown_requested,
                  page_count, to_visit, visited, image_urls, cur_url,
                  pending, submitted, late_fetches, observed >>

\* lines 668-692: the links of the page that are neither visited nor
\* queued are appended (the links of a page of the site are distinct and
\* fewer than five), the page is marked visited, and the loop goes on
\* unless more than ten pages were counted
EndPage ==
  /\ pc = "img_collect"
  /\ pending = {}
  /\ to_visit' = to_visit \o SelectSeq(PageLinks(cur_url),
                     LAMBDA x : x \notin visited /\ x \notin Range(to_visit))
  /\ visited' = visited \cup {cur_url}
  /\ pc' = IF page_count > 10 THEN "img_done" ELSE "img_loop"
  /\ UNCHANGED << cfg, call_log, mirror_data, panel, shutdown_requested,
                  page_count, image_urls, cur_url, pending,
                  downloaded_count, failed_count, submitted, late_fetches,
                  late_counts, observed >>

\* lines 39-44: Ctrl+C while the function runs
imagesonly_signal_handler ==
  /\ pc \in {"img_loop", "img_delay", "img_fetch", "img_collect", "img_count"}
  /\ ~shutdown_requested
  /\ shutdown_requested' = TRUE
  /\ UNCHANGED << cfg, call_log, mirror_data, panel, pc, page_count,
                  finder >>

ImagesNext ==
  \/ NextPage
  \/ CheckAfterDelay
  \/ \E outcome \in {"html", "failed"} : FetchPage(outcome)
  \/ NextResult
  \/ \E success \in BOOLEAN : CountResult(success)
  \/ EndPage
  \/ imagesonly_signal_handler

\* the function keeps running: every request and every worker has a timeout
ImagesSpec == ImagesInit /\ [][ImagesNext]_vars /\ WF_vars(ImagesNext)

\* ------------------------------------------------------------------------
\* Properties
\* ------------------------------------------------------------------------
NoDup(s) == \A i, j \in 1..Len(s) : i # j => s[i] # s[j]

PageFetchAttempts == Len(SelectSeq(fetch_log, LAMBDA e : e.kind = "page"))

PagesFetchedOk == Len(SelectSeq(fetch_log, LAMBDA e : e.kind = "page" /\ e.ok))

\* a URL mirror() has dealt with: marked visited or given an entry in downloaded
Attempted(u) == u \in visited_pages \/ u \in DOMAIN downloaded

\* a URL with a successful entry in the resolved map
ResolvedOk(t) ==
  IF t = NoneV \/ t \notin DOMAIN downloaded THEN FALSE
  ELSE downloaded[t] # NoneV

\* the file a relative reference names when it is followed from directory dir
Resolve(l, dir) ==
  [dirs |-> NormPath(dir \o l.dirs, <<>>), file |-> l.file, ext |-> l.ext]

Ended == pc \in {"rewrite", "done"}

\* C1: with max_pages = 1 a run fetches one page only, and every resource that
\* page references has been popped from the resource queue and attempted when
\* the rewrite pass is reached.
C1_BudgetOneStillDownloadsResources ==
  (cfg.max_pages = 1 /\ Ended) =>
      /\ PageFetchAttempts <= 1
      /\ \A i \in 1..Len(enq_log) :
           enq_log[i].q = "res" => enq_log[i].url \in DOMAIN downloaded

\* C2 as stated: the number of page fetch attempts never exceeds max_pages.
C2_FetchAttemptsWithinBudget == PageFetchAttempts <= cfg.max_pages

\* C2 as amended: the number of pages fetched successfully (fetch_url returned
\* a response) never exceeds max_pages; failed attempts do not count.
C2_FetchedPagesWithinBudget ==
  /\ PagesFetchedOk <= cfg.max_pages
  /\ page_count <= PagesFetchedOk

C2_Witness ==
  /\ Ended
  /\ cfg.max_pages > 0
  /\ PagesFetchedOk = cfg.max_pages
  /\ PageFetchAttempts > cfg.max_pages

\* C3: no URL is passed to fetch_url more than once in a run, page fetches and
\* resource downloads taken together.
C3_NoUrlFetchedTwice ==
  \A i, j \in 1..Len(fetch_log) : i # j => fetch_log[i].url # fetch_log[j].url

\* C4 as stated: at the end of the crawl the visited set has as many elements
\* as page fetch attempts were made.
C4_VisitedEqualsFetchAttempts ==
  Ended => Cardinality(visited_pages) = PageFetchAttempts

\* C4 as amended: at the end of the crawl the size of the visited set equals
\* the number of page fetch attempts plus the number of pages skipped without
\* a fetch (cross-origin or disallowed by robots.txt).
C4_VisitedEqualsAttemptsPlusSkips ==
  Ended => Cardinality(visited_pages) = PageFetchAttempts + page_skips

C4_Witness ==
  /\ pc = "done"
  /\ page_skips > 0
  /\ PageFetchAttempts > 1
  /\ \E i \in 1..Len(fetch_log) : fetch_log[i].kind = "page" /\ ~fetch_log[i].ok

\* C5: the batch handed to the thread pool holds no URL twice, so no two
\* workers are in flight for the same URL.
C5_BatchHasNoUrlTwice ==
  \A i, j \in 1..Len(resource_batch) :
     i # j => resource_batch[i].url # resource_batch[j].url

\* C6: a URL is in at most one of the two queues, at most once in it, and is
\* enqueued at most once in a run (the start URL counts as enqueued).
C6_QueuedAtMostOnce ==
  /\ NoDup(to_visit_pages)
  /\ NoDup(to_visit_resources)
  /\ Range(to_visit_pages) \cap Range(to_visit_resources) = {}
  /\ \A i, j \in 1..Len(enq_log) : i # j => enq_log[i].url # enq_log[j].url
  /\ \A i \in 1..Len(enq_log) : enq_log[i].url # urldefrag(cfg.start_url)

\* C7: a URL that is in visited_pages or has an entry in downloaded is never
\* appended to a queue again.
C7_TerminalNeverRequeued ==
  \A i \in 1..Len(enq_log) : ~enq_log[i].terminal

\* C8 as stated: when the rewrite pass begins both queues are empty and every
\* discovered URL has been attempted.
C8_RewriteAfterFullDrain ==
  Ended =>
      /\ to_visit_pages = <<>>
      /\ to_visit_resources = <<>>
      /\ \A i \in 1..Len(enq_log) : Attempted(enq_log[i].url)

\* C8 as amended: the rewrite pass begins only after the crawl loop has ended:
\* no batch is in flight, and either the page budget is used up or both queues
\* are empty and every discovered URL has been attempted.
C8_RewriteAfterLoopEnd ==
  Ended =>
      /\ resource_batch = <<>>
      /\ \/ page_count >= cfg.max_pages
         \/ /\ to_visit_pages = <<>>
            /\ to_visit_resources = <<>>
            /\ Attempted(urldefrag(cfg.start_url))
            /\ \A i \in 1..Len(enq_log) : Attempted(enq_log[i].url)

C8_Witness ==
  /\ pc = "rewrite"
  /\ page_count < cfg.max_pages
  /\ \E i \in 1..Len(fetch_log) : fetch_log[i].kind = "resource"
  /\ \E i \in 1..Len(enq_log) : enq_log[i].q = "page"

\* C9: a reference whose target has no successful entry in the resolved map is
\* written back by the rewrite pass exactly as it was read, and every
\* reference the pass changes names, from the directory of the rewritten
\* file, the local path of a successful entry.
C9_FailedTargetsKeepRemoteUrl ==
  \A i \in 1..Len(rw_log) :
     \A k \in 1..Len(rw_log[i].refs) :
        LET e == rw_log[i]
            r == e.refs[k]
            t == normalize_url(e.page, r.old)
        IN  /\ ~ResolvedOk(t) => r.new = r.old
            /\ r.new # r.old =>
                 /\ ResolvedOk(t)
                 /\ Resolve(r.new, DirName(e.path)) = downloaded[t]

C9_Witness ==
  /\ pc = "done"
  /\ \E i \in 1..Len(rw_log) :
       /\ rw_log[i].saved
       /\ \E k \in 1..Len(rw_log[i].refs) :
            LET t == normalize_url(rw_log[i].page, rw_log[i].refs[k].old)
            IN  /\ t # NoneV
                /\ t \in DOMAIN downloaded
                /\ downloaded[t] = NoneV
                /\ \E n \in 1..Len(fetch_log) : fetch_log[n].url = t
       /\ \E k \in 1..Len(rw_log[i].refs) :
            rw_log[i].refs[k].new # rw_log[i].refs[k].old

\* a crawl that went well: it returned and every rewrite was saved
SuccessfulCrawl ==
  /\ pc = "done"
  /\ \A i \in 1..Len(rw_log) : rw_log[i].saved

\* a URL a worker fetched and saved, with a successful entry in the resolved
\* map and its file on disk
DownloadedOk(t) ==
  /\ ResolvedOk(t)
  /\ downloaded[t] \in DOMAIN files
  /\ \E n \in 1..Len(fetch_log) :
       fetch_log[n].kind = "resource" /\ fetch_log[n].url = t

\* C10: after a successful crawl every <img src> of a saved page whose target
\* was downloaded holds a relative path that, followed from the page's own
\* directory, names a file on disk.
C10_ImgSrcNamesLocalFile ==
  SuccessfulCrawl =>
    \A u \in visited_pages \cap DOMAIN downloaded :
       LET p == downloaded[u]
       IN  p \in DOMAIN files =>
             \A i \in 1..Len(files[p].nodes) :
                LET n == files[p].nodes[i]
                    v == n.cands[1].link
                    t == normalize_url(u, v)
                IN  (n.tag = "img" /\ n.attr = "src" /\ DownloadedOk(t)) =>
                      /\ v.rel /\ v.host = ""
                      /\ Resolve(v, DirName(p)) \in DOMAIN files

\* the local path <OUTDIR>/ex.test/<file><ext>
HostFile(file, ext) == [dirs |-> <<OUTDIR, HOST>>, file |-> file, ext |-> ext]

\* a reference to a file beside the referencing one
Beside(file, ext) == Lnk("", "", TRUE, <<>>, file, ext, "", "")

\* every request got a response, every worker ended with its file, and every
\* page that was fetched and every rewrite was written to disk
AllFetchesAndWritesOk ==
  /\ \A i \in 1..Len(fetch_log) : fetch_log[i].ok
  /\ \A i \in 1..Len(fetch_log) :
       fetch_log[i].kind = "page" =>
         url_to_path(OUTDIR, fetch_log[i].url) \in DOMAIN files
  /\ \A i \in 1..Len(rw_log) : rw_log[i].saved

\* the run of the end-to-end scenario: the single-page site from its root,
\* a page budget the one page does not use up, nothing disallowed
SinglePageRun ==
  /\ cfg.site = "single"
  /\ cfg.start_url = Url(HOST, <<>>, "", "")
  /\ cfg.max_pages >= 2
  /\ cfg.obey_robots => cfg.robots # "unread"
  /\ pc = "done"
  /\ AllFetchesAndWritesOk

\* C11: mirroring the single-page site (index page with img1.jpg and
\* style.css, style.css with bg.png), every fetch and write succeeding, ends
\* with exactly the four files index.html, img1.jpg, style.css and bg.png
\* under <OUTDIR>/ex.test, the two images holding their bytes, index.html
\* referencing img1.jpg and style.css by relative paths and style.css
\* referencing bg.png by a relative path.
C11_SinglePageSiteMirrored ==
  SinglePageRun =>
    /\ DOMAIN files = { HostFile("index", ".html"), HostFile("img1", ".jpg"),
                        HostFile("style", ".css"), HostFile("bg", ".png") }
    /\ files[HostFile("index", ".html")] =
         Html(<< Node("img", "src", Beside("img1", ".jpg")),
                 Node("link", "href", Beside("style", ".css")) >>)
    /\ files[HostFile("style", ".css")] =
         Css(<< Node("css", "url", Beside("bg", ".png")) >>)
    /\ files[HostFile("img1", ".jpg")] = Bin
    /\ files[HostFile("bg", ".png")] = Bin

\* the calls of url_to_path made so far that returned a path
PathCalls ==
  SelectSeq(call_log, LAMBDA c : c.fn = "url_to_path" /\ ~c.raised)

\* two URLs that differ in nothing but their two distinct query strings
DifferOnlyInQuery(u, v) ==
  /\ u.query # "" /\ v.query # "" /\ u.query # v.query
  /\ [u EXCEPT !.query = ""] = [v EXCEPT !.query = ""]

\* C12 as stated: two calls of url_to_path with the same URL return the same
\* path, and two URLs that differ only in their two distinct query strings
\* are mapped to two distinct files.
C12_SameUrlSamePathDistinctQueriesDistinctFiles ==
  \A i, j \in 1..Len(PathCalls) :
     /\ PathCalls[i].url = PathCalls[j].url => PathCalls[i].ret = PathCalls[j].ret
     /\ DifferOnlyInQuery(PathCalls[i].url, PathCalls[j].url) =>
          PathCalls[i].ret # PathCalls[j].ret

\* C12 as amended: two calls of url_to_path with the same URL return the same
\* path, and two URLs that differ only in their two distinct query strings
\* are mapped to two distinct files exactly when the first eight hex digits
\* of the SHA-1 digests of the two query strings differ.
C12_DistinctDigestsDistinctFiles ==
  \A i, j \in 1..Len(PathCalls) :
     /\ PathCalls[i].url = PathCalls[j].url => PathCalls[i].ret = PathCalls[j].ret
     /\ DifferOnlyInQuery(PathCalls[i].url, PathCalls[j].url) =>
          (PathCalls[i].ret # PathCalls[j].ret
             <=> QHash(PathCalls[i].url.query) # QHash(PathCalls[j].url.query))

C12_Witness ==
  /\ Len(PathCalls) = 2
  /\ DifferOnlyInQuery(PathCalls[1].url, PathCalls[2].url)
  /\ PathCalls[1].url.file = "a"
  /\ QHash(PathCalls[1].url.query) # QHash(PathCalls[2].url.query)
  /\ PathCalls[1].ret.file # PathCalls[2].ret.file

\* C13: any two distinct URLs with a local path in the resolved map (the
\* pages and resources mirror() saved) have two distinct local paths.
C13_SavedUrlsHaveDistinctPaths ==
  \A u, v \in DOMAIN downloaded :
     (u # v /\ downloaded[u] # NoneV /\ downloaded[v] # NoneV) =>
        downloaded[u] # downloaded[v]

\* a local path that lies under the output root
InsideRoot(path) ==
  /\ path.dirs # <<>>
  /\ path.dirs[1] = OUTDIR
  /\ ".." \notin Range(path.dirs)

\* C14: the path url_to_path returns for an absolute URL with a host, "." and
\* ".." segments included, lies inside the output root.
C14_PathInsideOutputRoot ==
  \A i \in 1..Len(PathCalls) : InsideRoot(PathCalls[i].ret)

C16_NoFailureAbortsMirror == pc # "aborted"

\* C17: once shutdown_requested is set, an iteration of the crawl loop that
\* begins afterwards sends no page request and submits no resource batch.
C17_NoNewWorkAfterShutdown ==
  [][ (shutdown_requested /\ pc = "crawl") =>
        (fetch_log' = fetch_log /\ resource_batch' = <<>>) ]_vars

IsPrefix(a, b) == Len(a) <= Len(b) /\ SubSeq(b, 1, Len(a)) = a

\* C18: an iteration of the crawl loop that begins with a non-empty page
\* queue pops nothing from the resource queue and starts no batch.
C18_PagesBeforeResources ==
  [][ (pc = "crawl" /\ to_visit_pages # <<>>) =>
        (pc' # "batch" /\ IsPrefix(to_visit_resources, to_visit_resources')) ]_vars

C18_Witness ==
  /\ pc = "batch"
  /\ PageFetchAttempts >= 2
  /\ enq_log # <<>>
  /\ enq_log[1].q = "res"
  /\ \E i \in 1..Len(resource_batch) : resource_batch[i].url = enq_log[1].url

\* the crawl loop has been left
LoopExited == pc \in {"rewrite", "done", "aborted"}

StripWww(l) == IF l # <<>> /\ Head(l) = "www" THEN Tail(l) ELSE l

\* the origin contract: the same host, the same host once a leading "www."
\* is stripped, or a subdomain of the base domain
OriginContract(base, host) ==
  \/ host = base
  \/ StripWww(Labels(host)) = StripWww(Labels(base))
  \/ /\ Len(Labels(host)) > Len(StripWww(Labels(base)))
     /\ IsSuffix(StripWww(Labels(base)), Labels(host))

\* C20: is_same_origin of the mirroring engine returns true exactly for an
\* exact host match, a match after stripping a leading "www." and a
\* subdomain of the base domain: true for ("example.com", example.com/x) and
\* ("example.com", cdn.example.com/x), false for ("example.com", evil.com/x).
C20_OriginTestFollowsContract ==
  \A i \in 1..Len(call_log) :
     call_log[i].fn = "is_same_origin" =>
        call_log[i].ret = OriginContract(call_log[i].base, call_log[i].url.host)

\* the request fetch_log[i] belongs to a worker whose result the main thread
\* has not written back yet
AwaitingCollect(i) ==
  \E j \in 1..Len(resource_batch) :
     resource_batch[j].n = i /\ resource_batch[j].st # "collected"

\* C21: a URL whose fetch for mirror() failed, as a page or as a resource, is
\* recorded in the resolved map with the value None once that attempt has
\* been dealt with, and stays so (it is not fetched again).
C21_FailedFetchRecordedAsNone ==
  \A i \in 1..Len(fetch_log) :
     LET e == fetch_log[i]
     IN  (e.kind # "redirect" /\ ~e.ok /\ ~AwaitingCollect(i)) =>
            /\ e.url \in DOMAIN downloaded
            /\ downloaded[e.url] = NoneV

\* a local path: directories, a file name and its extension
IsPath(p) == p # NoneV /\ DOMAIN p = {"dirs", "file", "ext"}

\* C22: a call of url_to_path on an absolute URL with a host returns a path
\* and raises nothing; a call on a URL without a host raises and returns no
\* path.
C22_PathTotalOnHostsErrorWithoutHost ==
  \A i \in 1..Len(call_log) :
     LET c == call_log[i]
     IN  c.fn = "url_to_path" =>
           IF c.url.host # ""
           THEN ~c.raised /\ IsPath(c.ret)
           ELSE c.raised /\ c.ret = NoneV

C22_Witness ==
  \E i, j \in 1..Len(call_log) :
     /\ call_log[i].fn = "url_to_path" /\ call_log[i].raised
     /\ call_log[j].fn = "url_to_path" /\ ~call_log[j].raised
     /\ call_log[j].url.query # ""
     /\ ".." \in Range(call_log[j].url.dirs)

\* C23: when a resource batch completes, every URL dispatched in it has its
\* entry in the resolved map: the local path when its download succeeded,
\* None when it failed, whatever the order in which the workers finished.
C23_BatchResultsAllRecorded ==
  [][ (pc = "batch" /\ pc' = "crawl") =>
        \A j \in 1..Len(resource_batch) :
           LET t == resource_batch[j]
           IN  /\ t.url \in DOMAIN downloaded'
               /\ downloaded'[t.url] = IF t.ok THEN t.path ELSE NoneV ]_vars

\* a status code of the 2xx class
Is2xx(outcome) ==
  ~outcome.raised /\ 200 <= outcome.status /\ outcome.status < 300

\* C24: fetch_url returns a response exactly when the last response it got
\* has a 2xx status; for any other terminal status (4xx, 5xx, a 3xx it does
\* not follow) and for a failed request it returns None.
C24_ResponseOnlyFor2xx ==
  \A i \in 1..Len(call_log) :
     call_log[i].fn = "fetch_url" =>
        (call_log[i].ret # NoneV <=> Is2xx(call_log[i].terminal))

\* a URL fetched as a page whose first-pass file is in the output tree
PageSaved(u) ==
  /\ \E i \in 1..Len(fetch_log) :
        fetch_log[i].kind = "page" /\ fetch_log[i].ok /\ fetch_log[i].url = u
  /\ ResolvedOk(u)
  /\ downloaded[u] \in DOMAIN files

\* C25: when mirror() returns, every page it fetched and saved has been
\* taken up by the rewrite pass (read, rewritten and written back), whatever
\* the extension of its path.
C25_EverySavedPageRewritten ==
  pc = "done" =>
     \A u \in DOMAIN downloaded :
        PageSaved(u) => \E k \in 1..Len(rw_log) : rw_log[k].page = u

\* C26: a URL whose save failed has no successful entry in the resolved map
\* and is absent from the rewrite map: every local path these maps hold
\* is a file that was written.  (A save that ends mirror() with an
\* exception is left aside.)
C26_WriteFailureLeavesUrlFailed ==
  pc # "aborted" =>
     /\ \A u \in DOMAIN downloaded :
           downloaded[u] # NoneV => downloaded[u] \in DOMAIN files
     /\ \A u \in DOMAIN mapping : mapping[u] \in DOMAIN files

\* a URL whose download is in the batch under way
InBatch(u) ==
  \E j \in 1..Len(resource_batch) : resource_batch[j].url = u

\* a style sheet downloaded as a resource and recorded with its local path
CssDownloaded(u) ==
  /\ Lower(u.ext) = ".css"
  /\ ResolvedOk(u)
  /\ downloaded[u] \in DOMAIN files
  /\ \E i \in 1..Len(fetch_log) :
        fetch_log[i].kind = "resource" /\ fetch_log[i].url = u

C28_CrossOriginNeverFetched ==
  cfg.same_domain_only =>
     \A i \in 1..Len(fetch_log) : is_same_origin(base_netloc, fetch_log[i].url)

\* m holds exactly the entries of dl that have a local path
IsSuccessfulPart(m, dl) ==
  /\ DOMAIN m = {u \in DOMAIN dl : dl[u] # NoneV}
  /\ \A u \in DOMAIN m : m[u] = dl[u]

\* C29: the rewrite map is assigned in one step only, the one that leaves the
\* crawl loop; once the rewrite pass runs it is the resolved map restricted
\* to its successful entries, and no step of the pass changes either map.
C29_RewriteMapBuiltOnceReadOnly ==
  [][ /\ mapping' # mapping => (pc = "crawl" /\ ~LoopCond /\ pc' = "rewrite")
      /\ pc' \in {"rewrite", "done"} => IsSuccessfulPart(mapping', downloaded')
      /\ pc \in {"rewrite", "done"} =>
            (mapping' = mapping /\ downloaded' = downloaded) ]_vars

C29_Witness ==
  /\ pc = "done"
  /\ \E k \in 1..Len(rw_log) :
        \E j \in 1..Len(rw_log[k].refs) :
           rw_log[k].refs[j].new # rw_log[k].refs[j].old
  /\ \E u \in DOMAIN downloaded : downloaded[u] = NoneV
  /\ \E u \in DOMAIN mapping : mapping[u].ext # ".html"

\* C30 as stated: a resource batch never holds more than max_workers pairs,
\* and at most max_workers downloads run at once.
C30_BatchWithinWorkerCount ==
  /\ Len(resource_batch) <= cfg.max_workers
  /\ Cardinality(Running) <= cfg.max_workers

\* C30 as amended: a resource batch never holds more than twice max_workers
\* pairs, and at most max_workers downloads run at once.
C30_BatchWithinTwiceWorkerCount ==
  /\ Len(resource_batch) <= 2 * cfg.max_workers
  /\ Cardinality(Running) <= cfg.max_workers

C30_Witness ==
  /\ pc = "batch"
  /\ Len(resource_batch) = 2 * cfg.max_workers
  /\ to_visit_resources # <<>>
  /\ Cardinality(Running) = cfg.max_workers
  /\ \E j \in 1..Len(resource_batch) : resource_batch[j].st = "queued"

\* a resource download has been started in this run
DrainingStarted ==
  \E i \in 1..Len(fetch_log) : fetch_log[i].kind = "resource"

\* C31: once a resource download has started no page is fetched any more,
\* and a page queue found empty by the crawl loop stays empty for the rest
\* of the run, the references discovered in style sheets included.
C31_NoPageOnceDrainingStarted ==
  [][ /\ to_visit_pages = <<>> => to_visit_pages' = <<>>
      /\ DrainingStarted =>
            \A j \in (Len(fetch_log) + 1)..Len(fetch_log') :
               fetch_log'[j].kind # "page" ]_vars

C31_Witness ==
  /\ pc = "done"
  /\ PageFetchAttempts >= 2
  /\ \E i \in 1..Len(enq_log) :
        /\ enq_log[i].url.file = "bg"
        /\ \E j \in 1..Len(fetch_log) :
              fetch_log[j].kind = "resource" /\ fetch_log[j].url = enq_log[i].url

\* the scheme of a link as urlparse reports it: in lower case
SchemeOf(l) == IF l.scheme = "JavaScript" THEN "javascript" ELSE l.scheme

\* C32: normalize_url returns None for every link whose scheme is javascript,
\* mailto, tel or data, and for every other link an absolute URL without a
\* fragment.
C32_NormalizeDropsSchemesAndFragments ==
  \A i \in 1..Len(call_log) :
     LET c == call_log[i]
     IN  c.fn = "normalize_url" =>
           IF SchemeOf(c.link) \in IgnoredSchemes
           THEN c.ret = NoneV
           ELSE c.ret # NoneV /\ c.ret.scheme # "" /\ c.ret.frag = ""

\* C33: for every base host and URL, is_same_origin of imagesonly.py returns
\* what is_same_origin of scrape.py returns.
C33_BothOriginTestsAgree ==
  \A i \in 1..Len(call_log) :
     call_log[i].fn = "imagesonly.is_same_origin" =>
        call_log[i].ret = is_same_origin(call_log[i].base, call_log[i].url)

\* the srcset attributes of a rewritten file, as places in its node list
SrcsetNodes(e) ==
  {i \in 1..Len(e.before.nodes) : e.before.nodes[i].attr = "srcset"}

\* C34: a rewritten srcset attribute has as many candidates as before, in
\* the same order, each with its descriptor unchanged; a candidate's URL is
\* replaced only when its target is in the rewrite map.
C34_SrcsetKeepsDescriptors ==
  \A k \in 1..Len(rw_log) :
     \A i \in SrcsetNodes(rw_log[k]) :
        LET old == rw_log[k].before.nodes[i].cands
            new == rw_log[k].after.nodes[i].cands
        IN  /\ Len(new) = Len(old)
            /\ \A j \in 1..Len(old) :
                  /\ new[j].desc = old[j].desc
                  /\ new[j].link # old[j].link =>
                        normalize_url(rw_log[k].page, old[j].link)
                           \in DOMAIN mapping

C34_Witness ==
  \E k \in 1..Len(rw_log) :
     \E i \in SrcsetNodes(rw_log[k]) :
        LET old == rw_log[k].before.nodes[i].cands
            new == rw_log[k].after.nodes[i].cands
        IN  /\ Len(old) = 2
            /\ new[1].link # old[1].link /\ new[1].desc = "1x"
            /\ new[2].link = old[2].link /\ new[2].desc = "2x"

RewrittenAsHtml(item) ==
  /\ item.path # NoneV
  /\ Lower(item.path.ext) \in {".html", ".htm"}

\* C36: in the second pass every URL whose file is rewritten as HTML is a
\* key of the rewrite map with a local path, both while it waits to be
\* rewritten and once it has been.
C36_RewrittenPageIsInMap ==
  pc \in {"rewrite", "done"} =>
    /\ \A k \in 1..Len(rw_todo) :
          RewrittenAsHtml(rw_todo[k]) =>
            /\ rw_todo[k].url \in DOMAIN mapping
            /\ mapping[rw_todo[k].url] = rw_todo[k].path
    /\ \A k \in 1..Len(rw_log) :
          RewrittenAsHtml(rw_log[k]) =>
            /\ rw_log[k].page \in DOMAIN mapping
            /\ mapping[rw_log[k].page] = rw_log[k].path

C36_Witness ==
  \E k \in 1..Len(rw_log) :
     /\ RewrittenAsHtml(rw_log[k])
     /\ rw_log[k].page \in DOMAIN mapping
     /\ \E r \in 1..Len(rw_log[k].refs) :
          rw_log[k].refs[r].new # rw_log[k].refs[r].old

\* C37: within one run no file is returned in newItems twice, and every
\* file that is in the folder once the subprocesses have ended is returned
\* in newItems by some poll.
C37_EachFileReportedExactlyOnce ==
  /\ [](\A f \in PanelFiles : new_items[f] <= 1)
  /\ \A f \in PanelFiles :
       (runs > 0 /\ subprocesses = 0 /\ f \in folder_files)
          ~> (new_items[f] = 1)

\* C38: the flag is on exactly while a subprocess started by run_script is
\* running.
C38_ActiveExactlyWhileSubprocessRuns ==
  scraping_active <=> subprocesses > 0

\* C39: every image URL is submitted for download at most once, and the two
\* counters together never exceed the number of distinct image URLs found.
C39_EachImageSubmittedOnce ==
  /\ \A u \in SiteImages : submitted[u] <= 1
  /\ downloaded_count + failed_count <= Cardinality(image_urls)

\* a step that leaves both result counters as they are
CountersUnchanged ==
  /\ downloaded_count' = downloaded_count
  /\ failed_count' = failed_count

\* C40: with the flag set the function starts at most one more page fetch,
\* counts no download result, and returns; once it has read the flag as set
\* it begins no other page.
C40_ShutdownStopsFinder ==
  /\ [](late_fetches <= 1)
  /\ [][shutdown_requested => CountersUnchanged]_vars
  /\ [][observed => page_count' = page_count]_vars
  /\ (shutdown_requested ~> (pc = "img_done"))

\* C40 as amended: with the flag set the function starts at most one more
\* page fetch, counts at most one more download result, and returns; once
\* it has read the flag as set it begins no other page.
C40_ShutdownStopsFinderAfterOneResult ==
  /\ [](late_fetches <= 1 /\ late_counts <= 1)
  /\ [][observed => page_count' = page_count]_vars
  /\ (shutdown_requested ~> (pc = "img_done"))

C40_Witness ==
  /\ pc = "img_done"
  /\ observed
  /\ late_counts = 1

====
